---- MODULE Spec2Model ----
(***************************************************************************)
(* Segment search of django-transcription-demo: the SearchConfig record,   *)
(* the three retrieval strategies, the hybrid fusion and the dispatcher    *)
(* of transcripts/search.py.                                               *)
(*                                                                         *)
(* Units: a similarity or rank r is held as the integer 100*r, a weight w  *)
(* as the integer 10*w, so a weighted score s is held as 1000*s.           *)
(***************************************************************************)
EXTENDS Integers, Sequences, FiniteSets, TLC

\* ------------------------------------------------------------------ bounds
MaxQueryLen == 1
NumSegments == 3
NumTranscripts == 2
NumAdmins == 2
MaxCreates == 2

\* ------------------------------------------------------------- query text
\* Python None, kept apart from every str: no str holds the character "None".
None == <<"None">>

Whitespace == {" "}
Chars == {" ", "a"}

RECURSIVE StringsUpTo(_)
StringsUpTo(n) ==
    IF n = 0 THEN {<<>>}
    ELSE LET shorter == StringsUpTo(n - 1)
         IN  shorter \cup {Append(s, c) : s \in {t \in shorter : Len(t) = n - 1}, c \in Chars}

Queries == {None} \cup StringsUpTo(MaxQueryLen)

RECURSIVE lstrip(_)
lstrip(s) == IF s # <<>> /\ Head(s) \in Whitespace THEN lstrip(Tail(s)) ELSE s

RECURSIVE rstrip(_)
rstrip(s) ==
    IF s # <<>> /\ s[Len(s)] \in Whitespace THEN rstrip(SubSeq(s, 1, Len(s) - 1)) ELSE s

\* str.strip()
strip(s) == rstrip(lstrip(s))

\* IsBlank without the strip: only None and "" are turned away
IsBlankNoStrip(query) == query = None \/ query = <<>>

\* the guard `not query or not query.strip()` that opens every search function
IsBlank(query) ==
    IF query = None \/ query = <<>> THEN TRUE ELSE strip(query) = <<>>

\* ---------------------------------------------------------- SearchConfig
SearchTypes == {"fts", "trigram", "vector", "hybrid"}

\* the names a caller may hand to is_method_enabled / search_segments:
\* the four search types, and one string that is none of them
MethodNames == SearchTypes \cup {"invalid"}

\* search_type=None of search_segments
NoType == "None"

\* field defaults of a SearchConfig() built with no arguments
DefaultConfig ==
    [default_search_type |-> "hybrid",
     fts_enabled |-> TRUE, trigram_enabled |-> TRUE, vector_enabled |-> FALSE,
     fts_weight |-> 3, trigram_weight |-> 3, vector_weight |-> 4]

\* the weight triples an administrator saves: the defaults (0.3, 0.3, 0.4)
\* and a custom triple (1.2, 0.2, 0.2) that does not sum to 1 and leaves the
\* range the help text names; the FloatFields carry no validator
WeightChoices == {<<3, 3, 4>>, <<12, 2, 2>>}

ConfigChoices ==
    {[default_search_type |-> d,
      fts_enabled |-> f, trigram_enabled |-> t, vector_enabled |-> v,
      fts_weight |-> w[1], trigram_weight |-> w[2], vector_weight |-> w[3]] :
        d \in SearchTypes, f \in BOOLEAN, t \in BOOLEAN, v \in BOOLEAN,
        w \in WeightChoices}

\* get_enabled_methods reading the trigram flag for the fts entry
get_enabled_methods_wrong_flag(config) ==
    (IF config.trigram_enabled THEN <<"fts">> ELSE <<>>)
    \o (IF config.trigram_enabled THEN <<"trigram">> ELSE <<>>)
    \o (IF config.vector_enabled THEN <<"vector">> ELSE <<>>)

\* SearchConfig.get_enabled_methods: the names whose flag is set, as a list
get_enabled_methods(config) ==
    (IF config.fts_enabled THEN <<"fts">> ELSE <<>>)
    \o (IF config.trigram_enabled THEN <<"trigram">> ELSE <<>>)
    \o (IF config.vector_enabled THEN <<"vector">> ELSE <<>>)

\* is_method_enabled answering True for a name it does not know
is_method_enabled_unknown_true(config, method) ==
    CASE method = "fts" -> config.fts_enabled
      [] method = "trigram" -> config.trigram_enabled
      [] method = "vector" -> config.vector_enabled
      [] OTHER -> TRUE

\* SearchConfig.is_method_enabled
is_method_enabled(config, method) ==
    CASE method = "fts" -> config.fts_enabled
      [] method = "trigram" -> config.trigram_enabled
      [] method = "vector" -> config.vector_enabled
      [] OTHER -> FALSE

In(name, list) == \E i \in 1..Len(list) : list[i] = name

\* ------------------------------------------------------------------ corpus
Segments == 1..NumSegments
Transcripts == 1..NumTranscripts

\* SRTSegment.transcript and SRTSegment.segment_index of segment id s
TranscriptOf(s) == ((s - 1) % NumTranscripts) + 1
SegmentIndex(s) == (s - 1) \div NumTranscripts

\* values of pg_trgm similarity(text, query): at the 0.05 threshold (not
\* returned) and above it (returned)
SimilarityValues == {5, 50}
MinSimilarity == 5


\* a finer scale of similarity values: two distinct values above the threshold
FineSimilarityValues == {5, 6, 50}

\* SearchRank of a transcript for the query, in hundredths
RankValues == {10, 20}

\* the rank table in which every transcript ranks the same
FlatRank == [t \in Transcripts |-> 10]

\* SRTSegment.embedding_model: "" by default, the name of the sentence
\* transformer once generate_embeddings has run, another name for
\* embeddings of another origin
EmbeddingModel == "all-MiniLM-L6-v2"
ModelNames == {"", EmbeddingModel, "other-model"}

\* embedding_model of every segment when the embedded ones carry EmbeddingModel
ModelOf(embedded) == [s \in Segments |-> IF s \in embedded THEN EmbeddingModel ELSE ""]

\* the database extensions and indexes a strategy's SQL depends on
Backends == {"fts", "trigram"}

\* what the text index and pg_trgm hold for the query under test:
\* similarity[s] is similarity(text of s, query), matching is the set of
\* transcripts whose search_vector matches websearch(query) and rank their
\* SearchRank, embedded is the set of segments whose embedding column is not
\* null and embedding_model their embedding_model column, down is the set of
\* backends whose SQL fails
CorporaOver(values, embeddings) ==
    {[similarity |-> sim, matching |-> m, embedded |-> e,
      embedding_model |-> ModelOf(e), rank |-> FlatRank, down |-> {}] :
        sim \in [Segments -> values], m \in SUBSET Transcripts, e \in embeddings}

\* corpora without embeddings, as load_captions leaves them
Corpora == CorporaOver(SimilarityValues, {{}})

\* corpora in which generate_embeddings has filled some embedding columns
EmbeddedCorpora == CorporaOver(FineSimilarityValues, SUBSET Segments)

\* corpora whose transcripts rank differently for the query
RankedCorpora ==
    {[c EXCEPT !.rank = r] : c \in Corpora, r \in [Transcripts -> RankValues]}

\* corpora whose segments carry no embedding, an embedding of the sentence
\* transformer, or an embedding recorded under another model name
TaggedCorpora ==
    {[c EXCEPT !.embedding_model = m, !.embedded = {s \in Segments : m[s] # ""}] :
        c \in Corpora, m \in [Segments -> ModelNames]}

\* corpora in which at least one backend is out of order
OutageCorpora ==
    {[c EXCEPT !.down = d] : c \in Corpora, d \in (SUBSET Backends) \ {{}}}

\* --------------------------------------------------------------- state
VARIABLES
    configs,    \* persisted SearchConfig rows, primary key -> row
    corpus,     \* persisted transcripts and segments, as the indexes see them
    call,       \* the call of the request being served: arguments and result
    pending,    \* a search_segments call between its two configuration reads
    disabled,   \* the method the last admin save switched off, until the next call ends
    adding,     \* add-form submissions that passed has_add_permission and have not saved
    sequence,   \* next value of the SearchConfig primary key sequence
    job         \* the generate_embeddings run: its position, queue and counters

vars == <<configs, corpus, call, pending, disabled, adding, sequence, job>>

ConfigPk == 1

\* ------------------------------------------------------------ QuerySets
\* A QuerySet: the ids it selects, the annotation `score` of each row, and
\* the ORDER BY column `key` (descending). raised = TRUE: the call raised
\* instead of returning.
ZeroScore == [s \in Segments |-> 0]

EmptyQuerySet == [raised |-> FALSE, ids |-> {}, score |-> ZeroScore, key |-> ZeroScore]

Raise == [raised |-> TRUE, ids |-> {}, score |-> ZeroScore, key |-> ZeroScore]

\* the row orders the database may hand back for a queryset: descending by
\* the ORDER BY column, rows with equal keys in any order
Orderings(qs) ==
    {p \in [1..Cardinality(qs.ids) -> qs.ids] :
        /\ \A i, j \in DOMAIN p : i # j => p[i] # p[j]
        /\ \A i, j \in DOMAIN p : i < j => qs.key[p[i]] >= qs.key[p[j]]}

\* ----------------------------------------------------------- get_search_config
\* get_search_config writing the defaults over the row it finds
get_search_config_resets(cfgs) ==
    [config |-> DefaultConfig, created |-> ConfigPk \notin DOMAIN cfgs,
     configs |-> [pk \in DOMAIN cfgs \cup {ConfigPk} |->
                     IF pk = ConfigPk THEN DefaultConfig ELSE cfgs[pk]]]

\* get_search_config building the default record without saving it
get_search_config_unsaved(cfgs) ==
    IF ConfigPk \in DOMAIN cfgs
    THEN [config |-> cfgs[ConfigPk], created |-> FALSE, configs |-> cfgs]
    ELSE [config |-> DefaultConfig, created |-> TRUE, configs |-> cfgs]

\* get_search_config handing out the record as it was first created, whatever
\* has been saved into the row since
get_search_config_first_seen(cfgs) ==
    IF ConfigPk \in DOMAIN cfgs
    THEN [config |-> DefaultConfig, created |-> FALSE, configs |-> cfgs]
    ELSE [config |-> DefaultConfig, created |-> TRUE,
          configs |-> [pk \in DOMAIN cfgs \cup {ConfigPk} |->
                          IF pk = ConfigPk THEN DefaultConfig ELSE cfgs[pk]]]

\* SearchConfig.objects.get_or_create(pk=1): the row, whether it was created,
\* and the table afterwards
get_search_config(cfgs) ==
    IF ConfigPk \in DOMAIN cfgs
    THEN [config |-> cfgs[ConfigPk], created |-> FALSE, configs |-> cfgs]
    ELSE [config |-> DefaultConfig, created |-> TRUE,
          configs |-> [pk \in DOMAIN cfgs \cup {ConfigPk} |->
                          IF pk = ConfigPk THEN DefaultConfig ELSE cfgs[pk]]]

\* ------------------------------------------------------------ strategies
\* trigram_search_segments keeping the rows at the threshold too
trigram_search_inclusive(db, query) ==
    IF IsBlank(query) THEN EmptyQuerySet
    ELSE [raised |-> FALSE,
          ids |-> {s \in Segments : db.similarity[s] >= MinSimilarity},
          score |-> db.similarity,
          key |-> db.similarity]

\* the SQL runs when the caller evaluates the queryset; with pg_trgm out of
\* order that raises
trigram_search_segments(db, query) ==
    IF IsBlank(query) THEN EmptyQuerySet
    ELSE IF "trigram" \in db.down THEN Raise
    ELSE [raised |-> FALSE,
          ids |-> {s \in Segments : db.similarity[s] > MinSimilarity},
          score |-> db.similarity,
          key |-> db.similarity]

\* ORDER BY transcript, segment_index (ascending), as a descending key
TranscriptOrderKey == [s \in Segments |-> 0 - (TranscriptOf(s) * NumSegments + SegmentIndex(s))]

\* fts_search_segments filtering the segments by their own text
fts_search_own_text(db, query) ==
    IF IsBlank(query) THEN EmptyQuerySet
    ELSE [raised |-> FALSE,
          ids |-> {s \in Segments : /\ TranscriptOf(s) \in db.matching
                                    /\ db.similarity[s] > MinSimilarity},
          score |-> ZeroScore,
          key |-> TranscriptOrderKey]

fts_search_segments(db, query) ==
    IF IsBlank(query) THEN EmptyQuerySet
    ELSE IF "fts" \in db.down THEN Raise
    ELSE [raised |-> FALSE,
          ids |-> {s \in Segments : TranscriptOf(s) \in db.matching},
          score |-> ZeroScore,
          key |-> TranscriptOrderKey]

\* LIMIT of the raw SQL in the first definition of vector_search_segments
VectorLimit == 100

\* a vector search returning every segment that has an embedding, whatever
\* model produced it, in id order
vector_search_any_model(db, query) ==
    IF IsBlank(query) THEN EmptyQuerySet
    ELSE [raised |-> FALSE, ids |-> db.embedded, score |-> ZeroScore,
          key |-> [s \in Segments |-> 0 - s]]

\* a vector search ranking every segment, with or without an embedding
vector_search_every_segment(db, query) ==
    IF IsBlank(query) THEN EmptyQuerySet
    ELSE [raised |-> FALSE, ids |-> Segments, score |-> ZeroScore,
          key |-> [s \in Segments |-> 0 - s]]

\* the second definition of vector_search_segments, which replaces the first
\* at import time
vector_search_segments(db, query) ==
    IF IsBlank(query) THEN EmptyQuerySet
    ELSE EmptyQuerySet

\* the result of a call that returned qs without reading the configuration
NoRead(qs, cfgs) == [qs |-> qs, configs |-> cfgs, reads |-> <<>>, created |-> FALSE]

\* ------------------------------------------------------------- fusion
Max(S) == CHOOSE x \in S : \A y \in S : y <= x

\* django.db.models.functions.Greatest: its constructor raises ValueError
\* ("Greatest must take at least two expressions") for fewer than two
\* expressions; otherwise the row-wise maximum
Greatest(expressions) ==
    IF Len(expressions) < 2 THEN [raised |-> TRUE, value |-> ZeroScore]
    ELSE [raised |-> FALSE,
          value |-> [s \in Segments |->
                        Max({expressions[i][s] : i \in 1..Len(expressions)})]]

\* hybrid_search_segments evaluates each enabled strategy's queryset through
\* values_list, outside any try block: a strategy that raises ends the call
strategy_raised(enabled_methods, db, q) ==
    \/ In("trigram", enabled_methods) /\ trigram_search_segments(db, q).raised
    \/ In("fts", enabled_methods) /\ fts_search_segments(db, q).raised
    \/ In("vector", enabled_methods) /\ vector_search_segments(db, q).raised

\* the ids gathered from the enabled strategies
combined_ids(enabled_methods, db, q) ==
    (IF In("trigram", enabled_methods) THEN trigram_search_segments(db, q).ids ELSE {})
    \cup (IF In("fts", enabled_methods) THEN fts_search_segments(db, q).ids ELSE {})
    \cup (IF In("vector", enabled_methods) THEN vector_search_segments(db, q).ids ELSE {})

\* the trigram_score annotation
trigram_score(enabled_methods, db) ==
    IF In("trigram", enabled_methods) THEN db.similarity ELSE ZeroScore

\* the list score_components: the weighted trigram score is its only entry
score_components(config, enabled_methods, db) ==
    IF In("trigram", enabled_methods)
    THEN <<[s \in Segments |-> trigram_score(enabled_methods, db)[s] * config.trigram_weight]>>
    ELSE <<>>

\* the combined_score annotation: Greatest over the components, or the
\* constant 0.0 when there is none
combined_score(config, enabled_methods, db) ==
    IF score_components(config, enabled_methods, db) # <<>>
    THEN Greatest(score_components(config, enabled_methods, db))
    ELSE [raised |-> FALSE, value |-> ZeroScore]

\* hybrid_fusion scoring every row by its raw trigram similarity and leaving
\* the rows in the model's default order (transcript, segment_index)
hybrid_fusion_unordered(config, enabled_methods, db, q) ==
    IF enabled_methods = <<>> THEN EmptyQuerySet
    ELSE IF strategy_raised(enabled_methods, db, q) THEN Raise
    ELSE IF combined_ids(enabled_methods, db, q) = {} THEN EmptyQuerySet
    ELSE IF combined_score(config, enabled_methods, db).raised THEN Raise
    ELSE [raised |-> FALSE,
          ids |-> combined_ids(enabled_methods, db, q),
          score |-> db.similarity,
          key |-> TranscriptOrderKey]

\* hybrid_search_segments after the configuration is read
hybrid_fusion(config, enabled_methods, db, q) ==
    IF enabled_methods = <<>> THEN EmptyQuerySet
    ELSE IF strategy_raised(enabled_methods, db, q) THEN Raise
    ELSE IF combined_ids(enabled_methods, db, q) = {} THEN EmptyQuerySet
    ELSE IF combined_score(config, enabled_methods, db).raised THEN Raise
    ELSE [raised |-> FALSE,
          ids |-> combined_ids(enabled_methods, db, q),
          score |-> combined_score(config, enabled_methods, db).value,
          key |-> combined_score(config, enabled_methods, db).value]

\* hybrid_search_segments running every strategy, whatever the flags say
hybrid_search_all_methods(cfgs, db, query) ==
    IF IsBlank(query) THEN NoRead(EmptyQuerySet, cfgs)
    ELSE LET got == get_search_config(cfgs)
         IN  [qs |-> hybrid_fusion(got.config, <<"fts", "trigram", "vector">>,
                                   db, strip(query)),
              configs |-> got.configs,
              reads |-> <<got.config>>, created |-> got.created]

\* the result carries the queryset, the table afterwards, the rows that
\* get_search_config handed to the call, and whether one of them was created
hybrid_search_segments(cfgs, db, query) ==
    IF IsBlank(query) THEN NoRead(EmptyQuerySet, cfgs)
    ELSE LET got == get_search_config(cfgs)
         IN  [qs |-> hybrid_fusion(got.config, get_enabled_methods(got.config),
                                   db, strip(query)),
              configs |-> got.configs,
              reads |-> <<got.config>>, created |-> got.created]

\* -------------------------------------------------------------- dispatcher
\* ResolvedType falling back to the configured default type, not to hybrid
ResolvedTypeFallbackDefault(config, search_type) ==
    LET requested == IF search_type = NoType THEN config.default_search_type
                     ELSE search_type
    IN  IF requested # "hybrid" /\ ~is_method_enabled(config, requested)
        THEN config.default_search_type ELSE requested

\* ResolvedType serving an omitted type as hybrid, whatever the default is
ResolvedTypeIgnoreDefault(config, search_type) ==
    LET requested == IF search_type = NoType THEN "hybrid" ELSE search_type
    IN  IF requested # "hybrid" /\ ~is_method_enabled(config, requested)
        THEN "hybrid" ELSE requested

\* the search type left after the default and the fallback are applied
ResolvedType(config, search_type) ==
    LET requested == IF search_type = NoType THEN config.default_search_type
                     ELSE search_type
    IN  IF requested # "hybrid" /\ ~is_method_enabled(config, requested)
        THEN "hybrid" ELSE requested

\* dispatch sending every request through the hybrid fusion
dispatch_always_fuses(config, cfgs, db, query, search_type) ==
    hybrid_search_segments(cfgs, db, query)

\* search_segments from the point where it holds `config`: the default and
\* the fallback, then the if/elif chain; cfgs is the table at that point
dispatch(config, cfgs, db, query, search_type) ==
    LET resolved == ResolvedType(config, search_type)
    IN  IF resolved = "trigram" /\ config.trigram_enabled
            THEN NoRead(trigram_search_segments(db, query), cfgs)
        ELSE IF resolved = "fts" /\ config.fts_enabled
            THEN NoRead(fts_search_segments(db, query), cfgs)
        ELSE IF resolved = "vector"
            THEN NoRead(vector_search_segments(db, query), cfgs)
        ELSE hybrid_search_segments(cfgs, db, query)

\* the result of a search_segments call that read `got` and then ran `rest`
AfterRead(got, rest) ==
    [qs |-> rest.qs, configs |-> rest.configs,
     reads |-> <<got.config>> \o rest.reads,
     created |-> got.created \/ rest.created]

search_segments(cfgs, db, query, search_type) ==
    IF IsBlank(query) THEN NoRead(EmptyQuerySet, cfgs)
    ELSE LET got == get_search_config(cfgs)
         IN  AfterRead(got, dispatch(got.config, got.configs, db, query, search_type))


\* ------------------------------------------------------------------- views
\* SearchConfig.objects.first() or SearchConfig(): the row with the lowest
\* primary key, or an unsaved record of field defaults
first_or_default(cfgs) ==
    IF DOMAIN cfgs = {} THEN DefaultConfig
    ELSE cfgs[CHOOSE pk \in DOMAIN cfgs : \A other \in DOMAIN cfgs : pk <= other]

\* the view's validation of the requested type: the warning, and the
\* search_type handed to search_segments
validated(config, query, search_type) ==
    IF query # <<>> /\ search_type # NoType /\ ~is_method_enabled(config, search_type)
    THEN [warning |-> TRUE, search_type |-> config.default_search_type]
    ELSE [warning |-> FALSE, search_type |-> search_type]

\* queryset.filter(transcript=transcript)
filter_transcript(qs, transcript) ==
    [qs EXCEPT !.ids = {s \in @ : TranscriptOf(s) = transcript}]

\* the segment search of homepage and transcript_detail for the GET
\* parameters q and search_type: the stripped query, the row consulted, the
\* validation outcome and the dispatcher's result
view_search(cfgs, db, q, search_type) ==
    LET query == strip(q)
        config == first_or_default(cfgs)
        valid == validated(config, query, search_type)
        found == IF query # <<>>
                 THEN search_segments(cfgs, db, query, valid.search_type)
                 ELSE NoRead(EmptyQuerySet, cfgs)
    IN  [query |-> query, consulted |-> config, warning |-> valid.warning,
         passed |-> valid.search_type, found |-> found]

\* ------------------------------------------------------ generate_embeddings
\* no run of the command yet. start is what the embedding columns held when
\* the run began, visited the segments the loop body ran for, saved the
\* segments whose save succeeded.
NoJob ==
    [pc |-> "idle", todo |-> <<>>, total |-> 0, processed |-> 0, failed |-> 0,
     visited |-> <<>>, saved |-> {},
     start |-> [embedded |-> {}, embedding_model |-> ModelOf({})]]

\* SRTSegment.objects.filter(embedding__isnull=True)
\*     .order_by("transcript", "segment_index"), evaluated
segments_without_embeddings(db) ==
    CHOOSE rows \in Orderings([ids |-> Segments \ db.embedded,
                               key |-> TranscriptOrderKey]) : TRUE

\* the command up to the loop: the count, the early return when nothing is
\* missing, the counters at zero and the queryset the loop iterates
started(db) ==
    LET todo == segments_without_embeddings(db)
    IN  [NoJob EXCEPT !.pc = IF todo = <<>> THEN "done" ELSE "running",
                      !.todo = todo, !.total = Len(todo),
                      !.start = [embedded |-> db.embedded,
                                 embedding_model |-> db.embedding_model]]

\* segment.save(update_fields=["embedding", "embedding_model"])
save_embedding(db, s) ==
    [db EXCEPT !.embedded = @ \cup {s}, !.embedding_model[s] = EmbeddingModel]

\* the try branch of the loop body ran to its end for the head of the queue
after_success(j) ==
    [j EXCEPT !.todo = Tail(@), !.visited = Append(@, Head(j.todo)),
              !.saved = @ \cup {Head(j.todo)}, !.processed = @ + 1]

\* a loop whose except branch ends the run
after_failure_stops(j) ==
    [j EXCEPT !.todo = <<>>, !.visited = Append(@, Head(j.todo)),
              !.failed = @ + 1]

\* the except branch: count the failure and continue with the next segment
after_failure(j) ==
    [j EXCEPT !.todo = Tail(@), !.visited = Append(@, Head(j.todo)),
              !.failed = @ + 1]

\* ------------------------------------------------------------------ calls
NoCall ==
    [op |-> "none", query |-> None, search_type |-> NoType,
     raised |-> FALSE, rows |-> <<>>, score |-> ZeroScore,
     methods |-> <<>>, enabled |-> FALSE,
     reads |-> <<>>, created |-> FALSE, saved |-> <<>>,
     consulted |-> <<>>, warning |-> FALSE, passed |-> NoType]

\* the record of a search call that evaluated queryset qs to the row list rows
Returned(op, query, search_type, qs, rows) ==
    [NoCall EXCEPT !.op = op, !.query = query, !.search_type = search_type,
                   !.raised = qs.raised, !.rows = rows, !.score = qs.score]

\* no request is in flight
Idle == call = NoCall /\ pending = <<>>

Init ==
    /\ configs = <<>>
    /\ corpus \in Corpora
    /\ call = NoCall
    /\ pending = <<>>
    /\ disabled = "none"
    /\ adding = 0
    /\ sequence = 1
    /\ job = NoJob

TrigramSearch(query) ==
    LET qs == trigram_search_segments(corpus, query)
    IN  /\ Idle
        /\ \E rows \in Orderings(qs) :
               call' = Returned("trigram_search_segments", query, NoType, qs, rows)
        /\ UNCHANGED <<configs, corpus, job, pending, disabled, adding, sequence>>

FtsSearch(query) ==
    LET qs == fts_search_segments(corpus, query)
    IN  /\ Idle
        /\ \E rows \in Orderings(qs) :
               call' = Returned("fts_search_segments", query, NoType, qs, rows)
        /\ UNCHANGED <<configs, corpus, job, pending, disabled, adding, sequence>>

VectorSearch(query) ==
    LET qs == vector_search_segments(corpus, query)
    IN  /\ Idle
        /\ \E rows \in Orderings(qs) :
               call' = Returned("vector_search_segments", query, NoType, qs, rows)
        /\ UNCHANGED <<configs, corpus, job, pending, disabled, adding, sequence>>

\* a search call that ran to its result res
Served(op, query, search_type, res) ==
    /\ \E rows \in Orderings(res.qs) :
           call' = [Returned(op, query, search_type, res.qs, rows)
                       EXCEPT !.reads = res.reads, !.created = res.created]
    /\ configs' = res.configs

HybridSearch(query) ==
    /\ Idle
    /\ Served("hybrid_search_segments", query, NoType,
              hybrid_search_segments(configs, corpus, query))
    /\ UNCHANGED <<corpus, job, pending, disabled, adding, sequence>>

\* search_segments running without another request in between
SearchSegments(query, search_type) ==
    /\ Idle
    /\ Served("search_segments", query, search_type,
              search_segments(configs, corpus, query, search_type))
    /\ UNCHANGED <<corpus, job, pending, disabled, adding, sequence>>

\* search_segments up to and including its own get_search_config() call
SearchBegin(query, search_type) ==
    LET got == get_search_config(configs)
    IN  /\ Idle
        /\ ~IsBlank(query)
        /\ configs' = got.configs
        /\ pending' = <<[query |-> query, search_type |-> search_type,
                         config |-> got.config, created |-> got.created]>>
        /\ UNCHANGED <<corpus, job, call, disabled, adding, sequence>>

\* the rest of that search_segments call, on the table as it is by then
SearchFinish ==
    /\ call = NoCall
    /\ pending # <<>>
    /\ LET p == pending[1]
       IN  Served("search_segments", p.query, p.search_type,
                  AfterRead(p, dispatch(p.config, configs, corpus, p.query, p.search_type)))
    /\ pending' = <<>>
    /\ UNCHANGED <<corpus, job, disabled, adding, sequence>>

GetSearchConfig ==
    LET got == get_search_config(configs)
    IN  /\ Idle
        /\ call' = [NoCall EXCEPT !.op = "get_search_config",
                                  !.reads = <<got.config>>,
                                  !.created = got.created]
        /\ configs' = got.configs
        /\ UNCHANGED <<corpus, job, pending, disabled, adding, sequence>>

\* config.get_enabled_methods() on the persisted row
GetEnabledMethods ==
    /\ Idle
    /\ ConfigPk \in DOMAIN configs
    /\ call' = [NoCall EXCEPT !.op = "get_enabled_methods",
                              !.methods = get_enabled_methods(configs[ConfigPk])]
    /\ UNCHANGED <<configs, corpus, job, pending, disabled, adding, sequence>>

\* config.is_method_enabled(method) on the persisted row
IsMethodEnabled(method) ==
    /\ Idle
    /\ ConfigPk \in DOMAIN configs
    /\ call' = [NoCall EXCEPT !.op = "is_method_enabled",
                              !.search_type = method,
                              !.enabled = is_method_enabled(configs[ConfigPk], method)]
    /\ UNCHANGED <<configs, corpus, job, pending, disabled, adding, sequence>>

\* save() cutting every weight down to at most 1.0
save_clamped(cfgs, pk, config) ==
    [k \in DOMAIN cfgs \cup {pk} |->
        IF k # pk THEN cfgs[k]
        ELSE [config EXCEPT
                 !.fts_weight = IF @ > 10 THEN 10 ELSE @,
                 !.trigram_weight = IF @ > 10 THEN 10 ELSE @,
                 !.vector_weight = IF @ > 10 THEN 10 ELSE @]]

\* Model.save() of the row `config` under primary key pk: every field is
\* written as the form holds it
save(cfgs, pk, config) ==
    [k \in DOMAIN cfgs \cup {pk} |-> IF k = pk THEN config ELSE cfgs[k]]

\* the admin's add view up to its has_add_permission check, which passes
\* only while no SearchConfig row exists
AdminAddCheck ==
    /\ call = NoCall
    /\ adding < NumAdmins
    /\ DOMAIN configs = {}
    /\ adding' = adding + 1
    /\ UNCHANGED <<configs, corpus, job, call, pending, disabled, sequence>>

\* the rest of the add view: INSERT with the next primary key of the
\* sequence; a key already in the table is an IntegrityError
AdminAddSave(config) ==
    /\ call = NoCall
    /\ adding > 0
    /\ adding' = adding - 1
    /\ sequence' = sequence + 1
    /\ IF sequence \in DOMAIN configs
       THEN /\ call' = [NoCall EXCEPT !.op = "admin_add", !.raised = TRUE]
            /\ UNCHANGED configs
       ELSE /\ call' = [NoCall EXCEPT !.op = "admin_add", !.saved = <<config>>]
            /\ configs' = save(configs, sequence, config)
    /\ UNCHANGED <<corpus, job, pending, disabled>>

\* a view that ran its segment search `res` and shows the rows of qs
Rendered(op, search_type, res, qs) ==
    /\ \E rows \in Orderings(qs) :
           call' = [Returned(op, res.query, search_type, qs, rows)
                       EXCEPT !.reads = res.found.reads,
                              !.created = res.found.created,
                              !.consulted = <<res.consulted>>,
                              !.warning = res.warning,
                              !.passed = res.passed]
    /\ configs' = res.found.configs

Homepage(q, search_type) ==
    LET res == view_search(configs, corpus, q, search_type)
    IN  /\ Idle
        /\ Rendered("homepage", search_type, res, res.found.qs)
        /\ UNCHANGED <<corpus, job, pending, disabled, adding, sequence>>

TranscriptDetail(transcript, q, search_type) ==
    LET res == view_search(configs, corpus, q, search_type)
    IN  /\ Idle
        /\ Rendered("transcript_detail", search_type, res,
                    filter_transcript(res.found.qs, transcript))
        /\ UNCHANGED <<corpus, job, pending, disabled, adding, sequence>>

\* SearchConfig.objects.create(...): INSERT with the next primary key of
\* the sequence; a key already in the table is an IntegrityError
ConfigCreate(config) ==
    /\ call = NoCall
    /\ sequence <= MaxCreates
    /\ sequence' = sequence + 1
    /\ IF sequence \in DOMAIN configs
       THEN /\ call' = [NoCall EXCEPT !.op = "create", !.raised = TRUE]
            /\ UNCHANGED configs
       ELSE /\ call' = [NoCall EXCEPT !.op = "create", !.saved = <<config>>]
            /\ configs' = save(configs, sequence, config)
    /\ UNCHANGED <<corpus, job, pending, disabled, adding>>

\* SearchConfig.objects.all().delete()
ConfigDelete ==
    /\ call = NoCall
    /\ DOMAIN configs # {}
    /\ configs' = <<>>
    /\ call' = [NoCall EXCEPT !.op = "delete"]
    /\ UNCHANGED <<corpus, job, pending, disabled, adding, sequence>>

\* the admin's change form saving new field values into the row
AdminChange(config) ==
    /\ call = NoCall
    /\ ConfigPk \in DOMAIN configs
    /\ configs' = save(configs, ConfigPk, config)
    /\ call' = [NoCall EXCEPT !.op = "admin_change", !.saved = <<config>>]
    /\ disabled' = "none"
    /\ UNCHANGED <<corpus, job, pending, adding, sequence>>

\* the row `config` with the enabled flag of `method` off
Cleared(config, method) ==
    CASE method = "fts" -> [config EXCEPT !.fts_enabled = FALSE]
      [] method = "trigram" -> [config EXCEPT !.trigram_enabled = FALSE]
      [] method = "vector" -> [config EXCEPT !.vector_enabled = FALSE]
      [] OTHER -> config

\* the change form saved with the enabled box of `method` cleared
AdminDisable(method) ==
    /\ Idle
    /\ ConfigPk \in DOMAIN configs
    /\ is_method_enabled(configs[ConfigPk], method)
    /\ LET config == Cleared(configs[ConfigPk], method)
       IN  /\ configs' = save(configs, ConfigPk, config)
           /\ call' = NoCall
    /\ disabled' = method
    /\ UNCHANGED <<corpus, job, pending, adding, sequence>>

\* the request that made the last call is over and its result is dropped
RequestDone ==
    /\ call # NoCall
    /\ call' = NoCall
    /\ disabled' = "none"
    /\ UNCHANGED <<configs, corpus, job, pending, adding, sequence>>

\* requests served one at a time, and the admin editing the row
Next ==
    \/ \E query \in Queries : TrigramSearch(query)
    \/ \E query \in Queries : FtsSearch(query)
    \/ \E query \in Queries : VectorSearch(query)
    \/ \E query \in Queries : HybridSearch(query)
    \/ \E query \in Queries, search_type \in MethodNames \cup {NoType} :
           SearchSegments(query, search_type)
    \/ GetSearchConfig
    \/ GetEnabledMethods
    \/ \E method \in MethodNames : IsMethodEnabled(method)
    \/ \E config \in ConfigChoices : AdminChange(config)
    \/ RequestDone

Spec == Init /\ [][Next]_vars

\* the admin switching methods off between dispatcher calls
NextToggle ==
    \/ \E query \in Queries, search_type \in MethodNames \cup {NoType} :
           SearchSegments(query, search_type)
    \/ GetSearchConfig
    \/ \E config \in ConfigChoices : AdminChange(config)
    \/ \E method \in SearchTypes \ {"hybrid"} : AdminDisable(method)
    \/ RequestDone

SpecToggle == Init /\ [][NextToggle]_vars

\* what administrators type into the add form: the defaults, or every
\* method enabled under custom weights
AddChoices ==
    {DefaultConfig,
     [DefaultConfig EXCEPT !.vector_enabled = TRUE, !.fts_weight = 12,
                           !.trigram_weight = 2, !.vector_weight = 2]}

\* administrators submitting the add form while requests are served; each
\* submission is a request of its own and may run beside the others
NextAdd ==
    \/ AdminAddCheck
    \/ \E config \in AddChoices : AdminAddSave(config)
    \/ GetSearchConfig
    \/ \E query \in Queries, search_type \in MethodNames \cup {NoType} :
           SearchSegments(query, search_type)
    \/ RequestDone

SpecAdd == Init /\ [][NextAdd]_vars

\* what the administrator saves while a search is being served
SnapshotChoices ==
    {config \in ConfigChoices :
        ~config.vector_enabled /\ config.default_search_type \in {"hybrid", "fts"}}

\* search_segments requests served beside the admin's change form: a save
\* may land between the two configuration reads of one request
NextSnapshot ==
    \/ \E query \in Queries, search_type \in MethodNames \cup {NoType} :
           SearchBegin(query, search_type)
    \/ SearchFinish
    \/ \E config \in SnapshotChoices : AdminChange(config)
    \/ RequestDone

SpecSnapshot == Init /\ [][NextSnapshot]_vars

\* the strategy functions called on their own, over corpora with a finer
\* similarity scale and with embeddings
InitStrategies ==
    /\ configs = <<>>
    /\ corpus \in EmbeddedCorpora
    /\ call = NoCall
    /\ pending = <<>>
    /\ disabled = "none"
    /\ adding = 0
    /\ sequence = 1
    /\ job = NoJob

NextStrategies ==
    \/ \E query \in Queries : TrigramSearch(query)
    \/ \E query \in Queries : FtsSearch(query)
    \/ \E query \in Queries : VectorSearch(query)
    \/ RequestDone

SpecStrategies == InitStrategies /\ [][NextStrategies]_vars

\* vector_search_segments over segments with embeddings of either model
InitVector ==
    /\ configs = <<>>
    /\ corpus \in TaggedCorpora
    /\ call = NoCall
    /\ pending = <<>>
    /\ disabled = "none"
    /\ adding = 0
    /\ sequence = 1
    /\ job = NoJob

NextVector ==
    \/ \E query \in Queries : VectorSearch(query)
    \/ RequestDone

SpecVector == InitVector /\ [][NextVector]_vars

\* hybrid searches while a backend is out of order
InitOutage ==
    /\ configs = <<>>
    /\ corpus \in OutageCorpora
    /\ call = NoCall
    /\ pending = <<>>
    /\ disabled = "none"
    /\ adding = 0
    /\ sequence = 1
    /\ job = NoJob

\* the rows the administrator saves during the outage
OutageChoices == {config \in ConfigChoices : config.default_search_type = "hybrid"}

NextOutage ==
    \/ \E query \in Queries : HybridSearch(query)
    \/ \E query \in Queries, search_type \in MethodNames \cup {NoType} :
           SearchSegments(query, search_type)
    \/ \E config \in OutageChoices : AdminChange(config)
    \/ RequestDone

SpecOutage == InitOutage /\ [][NextOutage]_vars

\* manage.py generate_embeddings, up to the loop
CommandStart ==
    /\ job.pc \in {"idle", "done"}
    /\ job' = started(corpus)
    /\ UNCHANGED <<configs, corpus, call, pending, disabled, adding, sequence>>

\* one iteration of the loop: get_embedding and save succeed, or one of
\* them raises
CommandStep ==
    /\ job.pc = "running"
    /\ job.todo # <<>>
    /\ \/ /\ corpus' = save_embedding(corpus, Head(job.todo))
          /\ job' = after_success(job)
       \/ /\ job' = after_failure(job)
          /\ UNCHANGED corpus
    /\ UNCHANGED <<configs, call, pending, disabled, adding, sequence>>

\* the loop is exhausted: the summary is printed and the command returns
CommandFinish ==
    /\ job.pc = "running"
    /\ job.todo = <<>>
    /\ job' = [job EXCEPT !.pc = "done"]
    /\ UNCHANGED <<configs, corpus, call, pending, disabled, adding, sequence>>

\* segments with no embedding, an embedding of the sentence transformer or
\* an embedding recorded under another model name; nothing matches a query
CommandCorpora ==
    {c \in TaggedCorpora :
        c.matching = {} /\ \A s \in Segments : c.similarity[s] = MinSimilarity}

InitCommand ==
    /\ configs = <<>>
    /\ corpus \in CommandCorpora
    /\ call = NoCall
    /\ pending = <<>>
    /\ disabled = "none"
    /\ adding = 0
    /\ sequence = 1
    /\ job = NoJob

\* runs of the command, one after the other
NextCommand ==
    \/ CommandStart
    \/ CommandStep
    \/ CommandFinish

SpecCommand == InitCommand /\ [][NextCommand]_vars

\* the command is one sequential process: once started, the loop body and
\* the return after it are always taken
FairSpecCommand ==
    SpecCommand /\ WF_vars(CommandStep) /\ WF_vars(CommandFinish)

\* the rows created and saved while the views are served
ViewChoices ==
    {config \in ConfigChoices :
        /\ ~config.vector_enabled
        /\ config.default_search_type \in {"hybrid", "fts"}
        /\ config.trigram_weight = DefaultConfig.trigram_weight}

\* the two views, with configuration rows created, saved and deleted
\* between the requests
NextViews ==
    \/ \E q \in StringsUpTo(MaxQueryLen), search_type \in MethodNames \cup {NoType} :
           Homepage(q, search_type)
    \/ \E transcript \in Transcripts, q \in StringsUpTo(MaxQueryLen),
          search_type \in MethodNames \cup {NoType} :
           TranscriptDetail(transcript, q, search_type)
    \/ \E config \in ViewChoices : ConfigCreate(config)
    \/ \E config \in ViewChoices : AdminChange(config)
    \/ ConfigDelete
    \/ RequestDone

SpecViews == Init /\ [][NextViews]_vars

\* fts_search_segments over transcripts of different rank
InitRanked ==
    /\ configs = <<>>
    /\ corpus \in RankedCorpora
    /\ call = NoCall
    /\ pending = <<>>
    /\ disabled = "none"
    /\ adding = 0
    /\ sequence = 1
    /\ job = NoJob

NextRanked ==
    \/ \E query \in Queries : FtsSearch(query)
    \/ RequestDone

SpecRanked == InitRanked /\ [][NextRanked]_vars


\* ================================================================ claims
SearchOps ==
    {"trigram_search_segments", "fts_search_segments", "vector_search_segments",
     "hybrid_search_segments", "search_segments"}

\* a query that is None, empty, or made of whitespace only
WhitespaceOnly(query) ==
    query = None \/ \A i \in 1..Len(query) : query[i] \in Whitespace

IdSet(rows) == {rows[i] : i \in 1..Len(rows)}

\* the row get_search_config hands out once a search has read the configuration
CurrentConfig == configs[ConfigPk]

Flag(config, method) ==
    CASE method = "fts" -> config.fts_enabled
      [] method = "trigram" -> config.trigram_enabled
      [] method = "vector" -> config.vector_enabled

\* C1: a None, empty or whitespace-only query makes every search function
\* return an empty result without raising, for every requested type and
\* every configuration.
C1_BlankQueryEmpty ==
    (call.op \in SearchOps /\ WhitespaceOnly(call.query))
        => (~call.raised /\ call.rows = <<>>)

\* a whitespace-only query sent to the dispatcher for an enabled strategy
\* that would return rows for a proper query
C1_Witness ==
    /\ call.op = "search_segments"
    /\ call.query = <<" ">>
    /\ call.search_type = "trigram"
    /\ ConfigPk \in DOMAIN configs
    /\ CurrentConfig.trigram_enabled
    /\ \E s \in Segments : corpus.similarity[s] > MinSimilarity
    /\ call.rows = <<>>

\* C2: search_segments asked for a disabled fts, trigram or vector returns
\* what hybrid_search_segments returns for the same query and configuration.
C2_DisabledFallsBackToHybrid ==
    (/\ call.op = "search_segments"
     /\ ~WhitespaceOnly(call.query)
     /\ call.search_type \in {"fts", "trigram", "vector"}
     /\ ~Flag(CurrentConfig, call.search_type))
        => LET hybrid == hybrid_search_segments(configs, corpus, call.query).qs
           IN  /\ call.raised = hybrid.raised
               /\ IdSet(call.rows) = hybrid.ids

\* trigram is disabled and requested; the hybrid path answers with the
\* segments of the matching transcripts
C2_Witness ==
    /\ call.op = "search_segments"
    /\ call.query = <<"a">>
    /\ call.search_type = "trigram"
    /\ ~CurrentConfig.trigram_enabled
    /\ CurrentConfig.fts_enabled
    /\ CurrentConfig.default_search_type = "vector"
    /\ call.rows # <<>>


\* ranks (in hundredths) the text index may give a matching transcript
PositiveRanks == 1..100

NonBlankHybridCall ==
    /\ call.op = "hybrid_search_segments"
    /\ ~WhitespaceOnly(call.query)

\* the raw score a strategy gave segment s: its own value where it returned
\* s, and 0 where it did not; rank is the rank of a matching transcript
RawScore(method, s, rank) ==
    CASE method = "trigram" ->
            IF s \in trigram_search_segments(corpus, strip(call.query)).ids
            THEN corpus.similarity[s] ELSE 0
      [] method = "fts" ->
            IF s \in fts_search_segments(corpus, strip(call.query)).ids
            THEN rank ELSE 0
      [] method = "vector" -> 0

Weight(config, method) ==
    CASE method = "fts" -> config.fts_weight
      [] method = "trigram" -> config.trigram_weight
      [] method = "vector" -> config.vector_weight

EnabledSet(config) == {m \in {"fts", "trigram", "vector"} : Flag(config, m)}

\* C3: the combined score of every candidate hybrid_search_segments returns
\* is the maximum over the enabled strategies of weight times raw score
\* (for some positive rank of the matching transcripts).
C3_CombinedScoreIsMaxWeighted ==
    (NonBlankHybridCall /\ ~call.raised)
        => \A s \in IdSet(call.rows) : \E rank \in PositiveRanks :
              call.score[s] =
                  Max({Weight(CurrentConfig, m) * RawScore(m, s, rank) :
                          m \in EnabledSet(CurrentConfig)})

\* C4: every candidate hybrid_search_segments returns has a combined score
\* strictly greater than 0.
C4_PositiveCombinedScore ==
    (NonBlankHybridCall /\ ~call.raised)
        => \A s \in IdSet(call.rows) : call.score[s] > 0

\* C5: with the three flags all false, hybrid_search_segments and every
\* search_segments call return an empty result without raising.
C5_NoMethodsEmpty ==
    (/\ call.op \in {"hybrid_search_segments", "search_segments"}
     /\ ConfigPk \in DOMAIN configs
     /\ EnabledSet(CurrentConfig) = {})
        => (~call.raised /\ call.rows = <<>>)

\* a hybrid search for "a" with all flags off over a corpus in which a
\* transcript matches and a segment is similar
C5_Witness ==
    /\ call.op = "hybrid_search_segments"
    /\ call.query = <<"a">>
    /\ ConfigPk \in DOMAIN configs
    /\ EnabledSet(CurrentConfig) = {}
    /\ corpus.matching # {}
    /\ \E s \in Segments : corpus.similarity[s] > MinSimilarity
    /\ call.rows = <<>>

\* C6: hybrid_search_segments returns exactly the union of the ids the
\* enabled strategies return for the trimmed query.
C6_UnionOfEnabled ==
    (NonBlankHybridCall /\ ConfigPk \in DOMAIN configs)
        => /\ ~call.raised
           /\ IdSet(call.rows) =
                 (IF CurrentConfig.trigram_enabled
                     THEN trigram_search_segments(corpus, strip(call.query)).ids ELSE {})
                 \cup (IF CurrentConfig.fts_enabled
                     THEN fts_search_segments(corpus, strip(call.query)).ids ELSE {})
                 \cup (IF CurrentConfig.vector_enabled
                     THEN vector_search_segments(corpus, strip(call.query)).ids ELSE {})

C8_EnabledMethodsExact ==
    (call.op = "get_enabled_methods")
        => /\ IdSet(call.methods) = EnabledSet(CurrentConfig)
           /\ Len(call.methods) = Cardinality(EnabledSet(CurrentConfig))
           /\ (EnabledSet(CurrentConfig) = {} => call.methods = <<>>)

\* get_enabled_methods on a row with fts on and trigram off
C8_Witness ==
    /\ call.op = "get_enabled_methods"
    /\ CurrentConfig.fts_enabled
    /\ ~CurrentConfig.trigram_enabled
    /\ call.methods # <<>>

\* C9: is_method_enabled returns the flag of fts, trigram or vector, and
\* False for every other name.
C9_IsMethodEnabledMirrorsFlag ==
    (call.op = "is_method_enabled")
        => call.enabled =
              (IF call.search_type \in {"fts", "trigram", "vector"}
               THEN Flag(CurrentConfig, call.search_type) ELSE FALSE)

\* is_method_enabled asked about a name that is no search method
C9_Witness ==
    /\ call.op = "is_method_enabled"
    /\ call.search_type = "invalid"
    /\ call.enabled = FALSE
    /\ CurrentConfig.fts_enabled

\* the result search_segments gives for an explicit search type
SameAsExplicit(search_type) ==
    LET explicit == search_segments(configs, corpus, call.query, search_type).qs
    IN  /\ call.raised = explicit.raised
        /\ call.score = explicit.score
        /\ call.rows \in Orderings(explicit)

\* C10: search_segments with search_type omitted serves the request as if
\* called with the configuration's default_search_type.
C10_OmittedTypeUsesDefault ==
    (/\ call.op = "search_segments"
     /\ call.search_type = NoType
     /\ ~WhitespaceOnly(call.query))
        => SameAsExplicit(CurrentConfig.default_search_type)

\* the type is omitted, the default is the enabled vector strategy, and fts
\* would have found segments
C10_Witness ==
    /\ call.op = "search_segments"
    /\ call.search_type = NoType
    /\ call.query = <<"a">>
    /\ CurrentConfig.default_search_type = "vector"
    /\ CurrentConfig.vector_enabled
    /\ CurrentConfig.fts_enabled
    /\ corpus.matching # {}
    /\ call.rows = <<>>


\* the single-strategy search types
Strategies == {"fts", "trigram", "vector"}

\* the queryset the strategy function of `method` returns on its own
OwnResult(method, query) ==
    CASE method = "fts" -> fts_search_segments(corpus, query)
      [] method = "trigram" -> trigram_search_segments(corpus, query)
      [] method = "vector" -> vector_search_segments(corpus, query)

\* the type a search_segments call asks for once an omitted type is
\* replaced by the configured default
RequestedType ==
    IF call.search_type = NoType THEN CurrentConfig.default_search_type
    ELSE call.search_type

\* the persisted table with the three weights of its row replaced
Reweighted(weights) ==
    [configs EXCEPT ![ConfigPk] =
        [@ EXCEPT !.fts_weight = weights[1], !.trigram_weight = weights[2],
                  !.vector_weight = weights[3]]]

\* C11: when the requested (or default) type is fts, trigram or vector and
\* that strategy is enabled, search_segments returns that strategy's own
\* rows, scores and order after a single configuration read, and the same
\* queryset under every other choice of the three weights.
C11_DirectStrategyOwnResult ==
    (/\ call.op = "search_segments"
     /\ ~WhitespaceOnly(call.query)
     /\ RequestedType \in Strategies
     /\ Flag(CurrentConfig, RequestedType))
        => LET own == OwnResult(RequestedType, call.query)
           IN  /\ ~call.raised
               /\ call.score = own.score
               /\ call.rows \in Orderings(own)
               /\ Len(call.reads) = 1
               /\ \A weights \in WeightChoices :
                      search_segments(Reweighted(weights), corpus, call.query,
                                      call.search_type).qs = own

\* trigram is enabled and requested under non-default weights, fts is enabled
\* too and would add the segments of a matching transcript; the call returns
\* the trigram rows only
C11_Witness ==
    /\ call.op = "search_segments"
    /\ call.query = <<"a">>
    /\ call.search_type = "trigram"
    /\ CurrentConfig.trigram_enabled
    /\ CurrentConfig.fts_enabled
    /\ CurrentConfig.trigram_weight # DefaultConfig.trigram_weight
    /\ call.rows # <<>>
    /\ \E s \in Segments : TranscriptOf(s) \in corpus.matching /\ s \notin IdSet(call.rows)


\* C12: the first search_segments call after a save that switched an enabled
\* method off, asking for that method, reads the saved row on each of its
\* configuration reads and returns what the hybrid fusion gives for the
\* row's new enabled set; no search made after the save sees the method
\* enabled.
C12_DisableSeenByNextCall ==
    (/\ call.op = "search_segments"
     /\ disabled # "none"
     /\ ~WhitespaceOnly(call.query))
        => /\ \A i \in 1..Len(call.reads) :
                  call.reads[i] = CurrentConfig /\ ~Flag(call.reads[i], disabled)
           /\ call.search_type = disabled =>
                  LET hybrid == hybrid_fusion(CurrentConfig,
                                              get_enabled_methods(CurrentConfig),
                                              corpus, strip(call.query))
                  IN  /\ Len(call.reads) = 2
                      /\ call.raised = hybrid.raised
                      /\ ~call.raised => /\ call.score = hybrid.score
                                         /\ call.rows \in Orderings(hybrid)

\* trigram was switched off by the last save and is asked for in the next
\* call; a segment above the similarity threshold is not returned, the
\* segments of the matching transcript are
C12_Witness ==
    /\ call.op = "search_segments"
    /\ call.query = <<"a">>
    /\ disabled = "trigram"
    /\ call.search_type = "trigram"
    /\ CurrentConfig.fts_enabled
    /\ call.rows # <<>>
    /\ \E s \in Segments : corpus.similarity[s] > MinSimilarity /\ s \notin IdSet(call.rows)


\* C13: a get_search_config call made while no row is persisted does not
\* raise, creates the row with default type hybrid, fts and trigram enabled,
\* vector disabled and weights 0.3 / 0.3 / 0.4, and returns it; a call made
\* while the row exists returns that row and leaves the table as it is.
C13_GetOrCreateDefault ==
    [][(call.op = "none" /\ call'.op = "get_search_config")
          => /\ ~call'.raised
             /\ Len(call'.reads) = 1
             /\ IF ConfigPk \in DOMAIN configs
                THEN /\ ~call'.created
                     /\ call'.reads[1] = configs[ConfigPk]
                     /\ configs' = configs
                ELSE /\ call'.created
                     /\ call'.reads[1] =
                            [default_search_type |-> "hybrid",
                             fts_enabled |-> TRUE, trigram_enabled |-> TRUE,
                             vector_enabled |-> FALSE,
                             fts_weight |-> 3, trigram_weight |-> 3, vector_weight |-> 4]
                     /\ DOMAIN configs' = DOMAIN configs \cup {ConfigPk}
                     /\ configs'[ConfigPk] = call'.reads[1]
                     /\ \A pk \in DOMAIN configs : configs'[pk] = configs[pk]]_vars

\* get_search_config has just created the row
C13_Witness ==
    /\ call.op = "get_search_config"
    /\ call.created
    /\ configs = <<call.reads[1]>>


\* the three weights of a row
Weights(config) == <<config.fts_weight, config.trigram_weight, config.vector_weight>>

\* C14: after a SearchConfig is saved with any three weights, reading the
\* configuration back gives exactly those three weights.
C14_WeightsPersistAsSaved ==
    (call.op = "admin_change" /\ ~call.raised)
        => Weights(get_search_config(configs).config) = Weights(call.saved[1])

\* weights that do not sum to 1, one of them above 1, have just been saved
C14_Witness ==
    /\ call.op = "admin_change"
    /\ call.saved # <<>>
    /\ call.saved[1].fts_weight > 10
    /\ call.saved[1].fts_weight + call.saved[1].trigram_weight
           + call.saved[1].vector_weight # 10
    /\ Weights(CurrentConfig) # Weights(DefaultConfig)


\* C15: fts_search_segments returns a segment exactly when its parent
\* transcript matches the query: every segment of a matching transcript,
\* whatever its own text, and no segment of any other transcript.
C15_FtsByParentTranscript ==
    (call.op = "fts_search_segments" /\ ~WhitespaceOnly(call.query))
        => /\ ~call.raised
           /\ \A s \in Segments :
                  (\E i \in 1..Len(call.rows) : call.rows[i] = s)
                      <=> TranscriptOf(s) \in corpus.matching
           /\ Len(call.rows) = Cardinality(IdSet(call.rows))

\* a matching transcript with two segments, both returned, one of them with
\* a text that is no closer to the query than the threshold; a segment of a
\* transcript that does not match is left out although its text is close
C15_Witness ==
    /\ call.op = "fts_search_segments"
    /\ call.query = <<"a">>
    /\ \E s, t \in IdSet(call.rows) :
           /\ s # t
           /\ TranscriptOf(s) = TranscriptOf(t)
           /\ corpus.similarity[s] <= MinSimilarity
    /\ \E s \in Segments \ IdSet(call.rows) : corpus.similarity[s] > MinSimilarity


\* C16: trigram_search_segments returns exactly the segments whose
\* similarity to the query is strictly above 0.05, each once, annotated with
\* that similarity and ordered by it, highest first.
C16_TrigramAboveThresholdDescending ==
    (call.op = "trigram_search_segments" /\ ~WhitespaceOnly(call.query))
        => /\ ~call.raised
           /\ IdSet(call.rows) = {s \in Segments : corpus.similarity[s] > MinSimilarity}
           /\ Len(call.rows) = Cardinality(IdSet(call.rows))
           /\ \A i \in 1..Len(call.rows) :
                  call.score[call.rows[i]] = corpus.similarity[call.rows[i]]
           /\ \A i, j \in 1..Len(call.rows) :
                  i < j => corpus.similarity[call.rows[i]] >= corpus.similarity[call.rows[j]]

\* two segments with different similarities above the threshold come back,
\* the closer one first and with the higher id, and a segment exactly at
\* the threshold is left out
C16_Witness ==
    /\ call.op = "trigram_search_segments"
    /\ call.query = <<"a">>
    /\ Len(call.rows) = 2
    /\ call.rows[1] > call.rows[2]
    /\ corpus.similarity[call.rows[1]] > corpus.similarity[call.rows[2]]
    /\ \E s \in Segments : corpus.similarity[s] = MinSimilarity

\* C17: while no segment has an embedding, vector_search_segments returns
\* no row and does not raise, for every query that is not blank.
C17_VectorEmptyWithoutEmbeddings ==
    (/\ call.op = "vector_search_segments"
     /\ ~WhitespaceOnly(call.query)
     /\ corpus.embedded = {})
        => (~call.raised /\ call.rows = <<>>)

\* no segment has an embedding, the query is not blank and its text is close
\* to a segment; the vector search returns nothing
C17_Witness ==
    /\ call.op = "vector_search_segments"
    /\ call.query = <<"a">>
    /\ corpus.embedded = {}
    /\ \E s \in Segments : corpus.similarity[s] > MinSimilarity
    /\ ~call.raised
    /\ call.rows = <<>>


\* C18: at most one SearchConfig row is persisted, whatever get_search_config
\* calls, searches and admin add submissions have run and however they
\* interleaved, and every get_search_config call returns that row.
C18_ConfigSingleton ==
    /\ Cardinality(DOMAIN configs) <= 1
    /\ call.op = "get_search_config"
           => (DOMAIN configs = {ConfigPk} /\ call.reads = <<configs[ConfigPk]>>)


\* C19: within one search_segments request every configuration read hands
\* out the same version of the record, so the default type and the flags
\* that chose the path and the enabled set and weights that the fusion used
\* belong together, even when an admin save lands during the request.
C19_OneSnapshotPerRequest ==
    (call.op = "search_segments" /\ ~WhitespaceOnly(call.query))
        => \A i, j \in 1..Len(call.reads) : call.reads[i] = call.reads[j]


\* a step in which a search function is called and returns
SearchStep == call.op = "none" /\ call'.op \in SearchOps

\* C20, as claimed: no search call changes the persisted configuration,
\* transcripts or segments, from any starting state, the state without a
\* configuration row included.
C20_SearchWritesNothing ==
    [][SearchStep => (configs' = configs /\ corpus' = corpus)]_vars

\* C20, amended: no search call changes the transcripts, the segments or an
\* existing configuration row; the only write a search makes is the insert
\* of the default row, made by search_segments and hybrid_search_segments
\* when the query is not blank and no row exists.
C20_SearchWritesOnlyMissingDefault ==
    [][SearchStep =>
          /\ corpus' = corpus
          /\ IF /\ ConfigPk \notin DOMAIN configs
                /\ call'.op \in {"search_segments", "hybrid_search_segments"}
                /\ ~WhitespaceOnly(call'.query)
             THEN /\ call'.created
                  /\ DOMAIN configs' = DOMAIN configs \cup {ConfigPk}
                  /\ configs'[ConfigPk] = DefaultConfig
                  /\ \A pk \in DOMAIN configs : configs'[pk] = configs[pk]
             ELSE /\ ~call'.created
                  /\ configs' = configs]_vars

\* a search_segments call on the empty table has just inserted the default row
C20_Witness ==
    /\ call.op = "search_segments"
    /\ call.query = <<"a">>
    /\ call.created
    /\ configs = <<DefaultConfig>>


\* the methods the hybrid fusion of the persisted row runs
FusedMethods == get_enabled_methods(CurrentConfig)

\* C21: in the hybrid fusion with trigram enabled, a candidate that the
\* trigram strategy did not return (its similarity is at or below 0.05, it
\* came in through another strategy) has trigram raw score 0.
C21_UnreturnedTrigramScoreZero ==
    (/\ call.op = "hybrid_search_segments"
     /\ ~WhitespaceOnly(call.query)
     /\ CurrentConfig.trigram_enabled)
        => \A s \in combined_ids(FusedMethods, corpus, strip(call.query))
                        \ trigram_search_segments(corpus, strip(call.query)).ids :
               trigram_score(FusedMethods, corpus)[s] = 0


\* C22: fts_search_segments returns the segments of the higher-ranked
\* transcript first and, within one transcript, in ascending segment_index;
\* every returned segment carries the rank of its transcript as its score.
C22_FtsOrderedByRank ==
    (call.op = "fts_search_segments" /\ ~WhitespaceOnly(call.query))
        => /\ \A i, j \in 1..Len(call.rows) :
                  i < j =>
                      LET a == call.rows[i]
                          b == call.rows[j]
                      IN  /\ corpus.rank[TranscriptOf(a)] >= corpus.rank[TranscriptOf(b)]
                          /\ TranscriptOf(a) = TranscriptOf(b)
                                 => SegmentIndex(a) < SegmentIndex(b)
           /\ \A i \in 1..Len(call.rows) :
                  call.score[call.rows[i]] = corpus.rank[TranscriptOf(call.rows[i])]


\* C23: for a query that is not blank, vector_search_segments returns the
\* segments that have an embedding, at most 100 of them, each once, ordered
\* by score descending and, at equal score, by ascending id.
C23_VectorTopByScore ==
    (call.op = "vector_search_segments" /\ ~WhitespaceOnly(call.query))
        => /\ ~call.raised
           /\ IdSet(call.rows) \subseteq corpus.embedded
           /\ Len(call.rows) = Cardinality(IdSet(call.rows))
           /\ Len(call.rows) = IF Cardinality(corpus.embedded) > VectorLimit
                               THEN VectorLimit ELSE Cardinality(corpus.embedded)
           /\ \A i, j \in 1..Len(call.rows) :
                  i < j => \/ call.score[call.rows[i]] > call.score[call.rows[j]]
                           \/ /\ call.score[call.rows[i]] = call.score[call.rows[j]]
                              /\ call.rows[i] < call.rows[j]

\* C24: vector_search_segments never returns a segment without an
\* embedding, nor one whose embedding_model is not the model that embeds
\* the query.
C24_VectorOnlySameModel ==
    (call.op = "vector_search_segments" /\ ~WhitespaceOnly(call.query))
        => \A i \in 1..Len(call.rows) :
               /\ call.rows[i] \in corpus.embedded
               /\ corpus.embedding_model[call.rows[i]] = EmbeddingModel

\* a vector search over a corpus that holds a segment without embedding, one
\* embedded by another model and one embedded by the query's model; neither
\* of the first two is among the rows
C24_Witness ==
    /\ call.op = "vector_search_segments"
    /\ call.query = <<"a">>
    /\ ~call.raised
    /\ \E s, t, u \in Segments :
           /\ s \notin corpus.embedded
           /\ t \in corpus.embedded /\ corpus.embedding_model[t] = "other-model"
           /\ u \in corpus.embedded /\ corpus.embedding_model[u] = EmbeddingModel
           /\ s \notin IdSet(call.rows)
           /\ t \notin IdSet(call.rows)


\* a method whose backend answers
BackendUp(method) == method \notin corpus.down

\* C25: when a backend is out of order, a hybrid search (called directly, or
\* reached through search_segments) does not raise and returns the
\* candidates of the enabled strategies whose backend answers: none when no
\* such strategy is left.
C25_OutageDegradesToRemaining ==
    (/\ \/ call.op = "hybrid_search_segments"
        \/ call.op = "search_segments" /\ Len(call.reads) = 2
     /\ ~WhitespaceOnly(call.query)
     /\ corpus.down # {})
        => /\ ~call.raised
           /\ IdSet(call.rows) =
                  combined_ids(SelectSeq(FusedMethods, BackendUp), corpus,
                               strip(call.query))


\* C26: search_segments called with a search_type that is none of fts,
\* trigram, vector, hybrid does not raise and returns what the hybrid path
\* returns for the same query and configuration.
C26_UnknownTypeServedByHybrid ==
    (/\ call.op = "search_segments"
     /\ call.search_type \notin SearchTypes \cup {NoType}
     /\ ~WhitespaceOnly(call.query))
        => LET hybrid == hybrid_search_segments(configs, corpus, call.query).qs
           IN  /\ ~call.raised
               /\ call.score = hybrid.score
               /\ call.rows \in Orderings(hybrid)

\* C26 without the promise not to raise: the outcome of the call, rows or
\* exception, is that of the hybrid path
C26_UnknownTypeSameAsHybrid ==
    (/\ call.op = "search_segments"
     /\ call.search_type \notin SearchTypes \cup {NoType}
     /\ ~WhitespaceOnly(call.query))
        => LET hybrid == hybrid_search_segments(configs, corpus, call.query).qs
           IN  /\ call.raised = hybrid.raised
               /\ call.score = hybrid.score
               /\ call.rows \in Orderings(hybrid)

\* a view served a request whose stripped query is not empty
ViewOps == {"homepage", "transcript_detail"}

ViewSearched == call.op \in ViewOps /\ call.query # <<>>

\* the row the view consulted to validate the requested type
Consulted == call.consulted[1]

\* the rows a view shows out of the queryset qs: all of them on the
\* homepage; on a transcript's page the rows of one transcript, which
\* the rows shown must all belong to
ShownOf(qs) ==
    IF call.op = "homepage" THEN {qs}
    ELSE {filter_transcript(qs, transcript) : transcript \in Transcripts}

\* C27: a homepage or transcript-detail request with a non-empty query
\* and a search_type naming a strategy that is disabled in the
\* configuration shows the segments of the hybrid path (its rows, score
\* and outcome), not those of the configured default search type.
C27_DisabledTypeShowsHybrid ==
    (/\ ViewSearched
     /\ call.search_type \in Strategies
     /\ ~Flag(Consulted, call.search_type))
        => \E shown \in ShownOf(hybrid_search_segments(configs, corpus, call.query).qs) :
               /\ call.raised = shown.raised
               /\ call.score = shown.score
               /\ call.rows \in Orderings(shown)

\* C28: the views set the "search method is disabled" warning only when
\* the request names fts, trigram or vector and that strategy's flag is
\* false; a request naming search_type=hybrid produces no warning and
\* hands "hybrid" to the dispatcher.
C28_WarningOnlyForDisabledStrategy ==
    /\ (call.op \in ViewOps /\ call.warning)
           => /\ call.search_type \in Strategies
              /\ ~Flag(Consulted, call.search_type)
    /\ (ViewSearched /\ call.search_type = "hybrid")
           => /\ ~call.warning
              /\ call.passed = "hybrid"

\* C29: within one request the record the view consults (the first
\* persisted row, or an unsaved default) carries the same enabled flags
\* and default type as every record the dispatcher reads through
\* get_search_config, whatever creates, saves and deletes came before.
C29_ViewAndDispatcherSameRecord ==
    ViewSearched =>
        \A i \in 1..Len(call.reads) :
            /\ \A method \in Strategies :
                   Flag(call.reads[i], method) = Flag(Consulted, method)
            /\ call.reads[i].default_search_type = Consulted.default_search_type

\* the segments whose embedding column was null when the run began
MissingAtStart == Segments \ job.start.embedded

\* what a finished run of generate_embeddings leaves behind
CommandOutcome ==
    /\ IdSet(job.visited) = MissingAtStart
    /\ Len(job.visited) = Cardinality(MissingAtStart)
    /\ job.processed + job.failed = job.total
    /\ job.total = Cardinality(MissingAtStart)
    /\ job.processed = Cardinality(job.saved)
    /\ \A s \in job.saved :
           s \in corpus.embedded /\ corpus.embedding_model[s] = EmbeddingModel
    /\ \A s \in job.start.embedded :
           /\ s \in corpus.embedded
           /\ corpus.embedding_model[s] = job.start.embedding_model[s]

====
